---- MODULE Spec2Model ----
(***************************************************************************)
(* HabitTracker (habit_tracker.py): the Habit entity, the HabitTracker     *)
(* collection with its sqlite-backed save/load, and the scenario of        *)
(* habit_tracker_test.py, as a state machine.                              *)
(*                                                                         *)
(* Time is counted in clock ticks, Day ticks to a day; a tick is the       *)
(* smallest step of datetime.now() (the "1 second" of the boundary cases). *)
(* datetime.now() is naive local wall-clock time, so besides advancing it  *)
(* can be set back (DST fall-back, clock adjustment).  A query runs in far *)
(* less than one tick: the clock moves only between calls.                 *)
(*                                                                         *)
(* Spec lets every operation run in any order.  HabitSpec follows one      *)
(* habit through its own methods, TrackerSpec the collection and its       *)
(* queries, TestSpec the steps of test_habit_tracking_analysis.            *)
(***************************************************************************)
EXTENDS Integers, Sequences, FiniteSets, TLC

VARIABLES now, habits, db, pc, frame, ret, test_pc

vars == <<now, habits, db, pc, frame, ret, test_pc>>

-----------------------------------------------------------------------------
(* Bounds of the model *)

(* clock ticks in a day, and the last instant the clock reaches *)
Day == 2
MaxTime == 5
(* habits held by the tracker, rows in the store, complete_task calls *)
MaxHabits == 2
MaxRows == 2
MaxCompletions == 2
(* the test's range(14) and range(35), scaled down *)
DailyRuns == 1
WeeklyRuns == 2

(* Inputs *)

(* What a caller passes to Habit(name, task, periodicity, habit_period):   *)
(* the two habits of the tests and the example, and one typed in at        *)
(* add_habit_from_input, which takes any text as the habit period.         *)
HabitInputs ==
    { <<"Exercise", "Go for a run", 1, "daily">>,
      <<"Read", "Read a chapter", 2, "weekly">>,
      <<"Exercise", "Stretch", 2, "monthly">> }

HabitPeriods == {"daily", "weekly", "monthly"}
QueryNames == {"Exercise", "Read", "Documentary"}

-----------------------------------------------------------------------------
(* class Habit *)

Habit(name, task, periodicity, habit_period) ==
    [name |-> name, task |-> task, periodicity |-> periodicity,
     habit_period |-> habit_period, completed_dates |-> <<>>]

timedelta(days) == days * Day

complete_task(h, at) ==
    [h EXCEPT !.completed_dates = Append(@, at)]

last_completed(h) == h.completed_dates[Len(h.completed_dates)]

(* completed_dates[-1] raises IndexError on an empty list *)
raises_IndexError(h) == h.completed_dates = <<>>

(* is_habit_broken with the comparison slipped to >= *)
is_habit_broken_ge(h, current_date) ==
    current_date - last_completed(h) >= timedelta(h.periodicity)

is_habit_broken(h, current_date) ==
    current_date - last_completed(h) > timedelta(h.periodicity)

walk_back(current_date, streak) == current_date - timedelta(streak)

(* streak += 1 with the increment lost, or doubled *)
next_streak_stuck(streak) == streak

next_streak_skip(streak) == streak + 2

next_streak(streak) == streak + 1

-----------------------------------------------------------------------------
(* Persistence: str(list of datetime) on save, eval(text) on load *)

(* repr of one datetime: the text "datetime.datetime(<fields of t>)" *)
repr_datetime(t) == [base |-> "datetime", attr |-> "datetime", arg |-> t]

str_list(dates) == [i \in 1..Len(dates) |-> repr_datetime(dates[i])]

(* The names eval() sees: the globals of habit_tracker.py.  "datetime" is  *)
(* bound to the class (from datetime import datetime), not the module.     *)
module_globals == [sqlite3 |-> "module sqlite3",
                   datetime |-> "class datetime",
                   timedelta |-> "class timedelta"]

module_datetime_attrs == {"datetime", "timedelta", "date", "time"}
class_datetime_attrs == {"now", "min", "max", "today", "strptime"}

has_attr(obj, attr) ==
    IF obj = "module datetime" THEN attr \in module_datetime_attrs
    ELSE IF obj = "class datetime" THEN attr \in class_datetime_attrs
    ELSE FALSE

(* evaluating one element "base.attr(arg)" *)
eval_ok(e) ==
    /\ e.base \in DOMAIN module_globals
    /\ has_attr(module_globals[e.base], e.attr)

eval_raises(text) == \E i \in 1..Len(text) : ~eval_ok(text[i])

eval_list(text) == [i \in 1..Len(text) |-> text[i].arg]

row_of(h) ==
    [name |-> h.name, task |-> h.task, periodicity |-> h.periodicity,
     habit_period |-> h.habit_period,
     completed_dates |-> str_list(h.completed_dates)]

habit_of_row(row) ==
    [Habit(row.name, row.task, row.periodicity, row.habit_period)
        EXCEPT !.completed_dates = eval_list(row.completed_dates)]

(* rows loaded before the first row whose eval raises *)
RECURSIVE loadable(_)
loadable(rows) ==
    IF rows = <<>> \/ eval_raises(Head(rows).completed_dates) THEN 0
    ELSE 1 + loadable(Tail(rows))

load_raises(rows) == loadable(rows) < Len(rows)

loaded_habits(rows) == [i \in 1..loadable(rows) |-> habit_of_row(rows[i])]

-----------------------------------------------------------------------------
(* class HabitTracker: the pure queries *)

RECURSIVE names_of(_)
names_of(hs) ==
    IF hs = <<>> THEN <<>> ELSE <<Head(hs).name>> \o names_of(Tail(hs))

get_all_habits_with_periodicity(hs, habit_period) ==
    names_of(SelectSeq(hs, LAMBDA h : h.habit_period = habit_period))

(* [habit.name for habit in habits if habit.habit_period == p and not     *)
(* habit.is_habit_broken(current_date)]: the comprehension raises at the   *)
(* first matching habit whose log is empty.                                *)
(* The first definition is the variant that skips an empty log silently.   *)
get_current_habits_lenient(hs, habit_period, current_date) ==
    [err |-> "",
     names |-> names_of(SelectSeq(hs, LAMBDA h :
                  /\ h.habit_period = habit_period
                  /\ ~raises_IndexError(h)
                  /\ ~is_habit_broken(h, current_date)))]

get_current_habits(hs, habit_period, current_date) ==
    IF \E i \in 1..Len(hs) :
          hs[i].habit_period = habit_period /\ raises_IndexError(hs[i])
    THEN [err |-> "IndexError", names |-> <<>>]
    ELSE [err |-> "",
          names |-> names_of(SelectSeq(hs, LAMBDA h :
                       /\ h.habit_period = habit_period
                       /\ ~is_habit_broken(h, current_date)))]

(* next((h for h in habits if h.name == habit_name), None): 0 for None *)
first_match(hs, habit_name) ==
    IF \E i \in 1..Len(hs) : hs[i].name = habit_name
    THEN CHOOSE i \in 1..Len(hs) :
            /\ hs[i].name = habit_name
            /\ \A j \in 1..(i-1) : hs[j].name # habit_name
    ELSE 0

(* a sentinel other than 0 for a name that matches nothing *)
not_found_result_neg == 0 - 1

not_found_result == 0

(* the update of longest_streak with the comparison reversed *)
longer_lt(current_streak, longest_streak) ==
    IF current_streak < longest_streak THEN current_streak ELSE longest_streak

longer(current_streak, longest_streak) ==
    IF current_streak > longest_streak THEN current_streak ELSE longest_streak

-----------------------------------------------------------------------------
(* The outcome of the last call, and the frame of a running streak query *)

NoRet == [op |-> "none", name |-> "", idx |-> 0, err |-> "", val |-> 0,
          flag |-> FALSE, names |-> <<>>]

NoFrame == [fn |-> "", name |-> "", i |-> 0, current_date |-> 0, streak |-> 0,
            longest_streak |-> 0]

Init ==
    /\ now = 0
    /\ habits = <<>>
    /\ db = <<>>
    /\ pc = "idle"
    /\ frame = NoFrame
    /\ ret = NoRet
    /\ test_pc = "off"

RECURSIVE completions(_)
completions(hs) ==
    IF hs = <<>> THEN 0
    ELSE Len(Head(hs).completed_dates) + completions(Tail(hs))

-----------------------------------------------------------------------------
(* Environment: the wall clock *)

Tick ==
    /\ pc = "idle"
    /\ now < MaxTime
    /\ now' = now + 1
    /\ ret' = NoRet
    /\ UNCHANGED <<habits, db, pc, frame, test_pc>>

ClockBack ==
    /\ pc = "idle"
    /\ now > 0
    /\ now' = now - 1
    /\ ret' = NoRet
    /\ UNCHANGED <<habits, db, pc, frame, test_pc>>

-----------------------------------------------------------------------------
(* Operations on the tracker and on its habits *)

(* add_habit(habit): append, then save_habit_to_db(habit) *)
do_add_habit(h) ==
    /\ habits' = Append(habits, h)
    /\ db' = Append(db, row_of(h))
    /\ ret' = [NoRet EXCEPT !.op = "add_habit", !.name = h.name]
    /\ UNCHANGED <<now, pc, frame>>

do_complete_task(i) ==
    /\ habits' = [habits EXCEPT ![i] = complete_task(@, now)]
    /\ ret' = [NoRet EXCEPT !.op = "complete_task", !.idx = i]
    /\ UNCHANGED <<now, db, pc, frame>>

do_save_habit_to_db(i) ==
    /\ db' = Append(db, row_of(habits[i]))
    /\ ret' = [NoRet EXCEPT !.op = "save_habit_to_db", !.idx = i]
    /\ UNCHANGED <<now, habits, pc, frame>>

do_load_habits_from_db ==
    /\ habits' = habits \o loaded_habits(db)
    /\ ret' = [NoRet EXCEPT !.op = "load_habits_from_db",
                            !.err = IF load_raises(db) THEN "AttributeError"
                                    ELSE "",
                            !.val = loadable(db)]
    /\ UNCHANGED <<now, db, pc, frame>>

(* add_habit_from_input / Habit(...) followed by add_habit *)
AddHabit ==
    /\ pc = "idle"
    /\ Len(habits) < MaxHabits
    /\ Len(db) < MaxRows
    /\ \E inp \in HabitInputs :
        do_add_habit(Habit(inp[1], inp[2], inp[3], inp[4]))
    /\ UNCHANGED test_pc

CompleteTask ==
    /\ pc = "idle"
    /\ completions(habits) < MaxCompletions
    /\ \E i \in 1..Len(habits) : do_complete_task(i)
    /\ UNCHANGED test_pc

SaveHabit ==
    /\ pc = "idle"
    /\ Len(db) < MaxRows
    /\ \E i \in 1..Len(habits) : do_save_habit_to_db(i)
    /\ UNCHANGED test_pc

LoadHabits ==
    /\ pc = "idle"
    /\ Len(habits) + loadable(db) <= MaxHabits
    /\ do_load_habits_from_db
    /\ UNCHANGED test_pc

-----------------------------------------------------------------------------
(* Queries that return at once *)

IsHabitBroken ==
    /\ pc = "idle"
    /\ \E i \in 1..Len(habits) :
        ret' = IF raises_IndexError(habits[i])
               THEN [NoRet EXCEPT !.op = "is_habit_broken", !.idx = i,
                                  !.err = "IndexError"]
               ELSE [NoRet EXCEPT !.op = "is_habit_broken", !.idx = i,
                                  !.flag = is_habit_broken(habits[i], now)]
    /\ UNCHANGED <<now, habits, db, pc, frame, test_pc>>

current_habits_ret(op, habit_period) ==
    LET r == get_current_habits(habits, habit_period, now) IN
    [NoRet EXCEPT !.op = op, !.name = habit_period, !.err = r.err,
                  !.names = r.names]

GetCurrentDailyHabits ==
    /\ pc = "idle"
    /\ ret' = current_habits_ret("get_current_daily_habits", "daily")
    /\ UNCHANGED <<now, habits, db, pc, frame, test_pc>>

GetCurrentWeeklyHabits ==
    /\ pc = "idle"
    /\ ret' = current_habits_ret("get_current_weekly_habits", "weekly")
    /\ UNCHANGED <<now, habits, db, pc, frame, test_pc>>

GetAllHabitsWithPeriodicity ==
    /\ pc = "idle"
    /\ \E habit_period \in HabitPeriods :
        ret' = [NoRet EXCEPT
                  !.op = "get_all_habits_with_periodicity",
                  !.name = habit_period,
                  !.names = get_all_habits_with_periodicity(habits, habit_period)]
    /\ UNCHANGED <<now, habits, db, pc, frame, test_pc>>

-----------------------------------------------------------------------------
(* Streak queries: the walk-back loop of get_current_streak runs step by   *)
(* step; nothing else runs until it has returned or raised.                *)

enter_streak(fn, name, i) ==
    /\ pc' = "streak"
    /\ frame' = [fn |-> fn, name |-> name, i |-> i, current_date |-> now,
                 streak |-> 0, longest_streak |-> 0]
    /\ ret' = NoRet

(* habit.get_current_streak(datetime.now()) on a habit the caller holds *)
GetCurrentStreak ==
    /\ pc = "idle"
    /\ \E i \in 1..Len(habits) : enter_streak("get_current_streak", "", i)
    /\ UNCHANGED <<now, habits, db, test_pc>>

GetLongestRunStreakForHabit ==
    /\ pc = "idle"
    /\ \E habit_name \in QueryNames :
        LET i == first_match(habits, habit_name) IN
        IF i # 0
        THEN enter_streak("get_longest_run_streak_for_habit", habit_name, i)
        ELSE /\ ret' = [NoRet EXCEPT
                          !.op = "get_longest_run_streak_for_habit",
                          !.name = habit_name, !.val = not_found_result]
             /\ UNCHANGED <<pc, frame>>
    /\ UNCHANGED <<now, habits, db, test_pc>>

GetLongestRunStreakOfAllHabits ==
    /\ pc = "idle"
    /\ IF habits # <<>>
       THEN enter_streak("get_longest_run_streak_of_all_habits", "", 1)
       ELSE /\ ret' = [NoRet EXCEPT
                         !.op = "get_longest_run_streak_of_all_habits"]
            /\ UNCHANGED <<pc, frame>>
    /\ UNCHANGED <<now, habits, db, test_pc>>

(* is_habit_broken raises inside the loop: the exception leaves the query *)
StreakRaise ==
    /\ pc = "streak"
    /\ raises_IndexError(habits[frame.i])
    /\ pc' = "idle"
    /\ frame' = NoFrame
    /\ ret' = [NoRet EXCEPT !.op = frame.fn, !.name = frame.name,
                            !.idx = frame.i, !.err = "IndexError"]
    /\ UNCHANGED <<now, habits, db, test_pc>>

(* while is_habit_broken(current_date - timedelta(days=streak)): streak += 1 *)
StreakLoop ==
    /\ pc = "streak"
    /\ ~raises_IndexError(habits[frame.i])
    /\ is_habit_broken(habits[frame.i], walk_back(frame.current_date, frame.streak))
    /\ frame' = [frame EXCEPT !.streak = next_streak(@)]
    /\ UNCHANGED <<now, habits, db, pc, ret, test_pc>>

(* return streak; in get_longest_run_streak_of_all_habits, on to the next habit *)
StreakReturn ==
    /\ pc = "streak"
    /\ ~raises_IndexError(habits[frame.i])
    /\ ~is_habit_broken(habits[frame.i], walk_back(frame.current_date, frame.streak))
    /\ IF frame.fn = "get_longest_run_streak_of_all_habits"
       THEN LET longest == longer(frame.streak, frame.longest_streak) IN
            IF frame.i < Len(habits)
            THEN /\ frame' = [frame EXCEPT !.i = @ + 1, !.streak = 0,
                                           !.current_date = now,
                                           !.longest_streak = longest]
                 /\ UNCHANGED <<pc, ret>>
            ELSE /\ pc' = "idle"
                 /\ frame' = NoFrame
                 /\ ret' = [NoRet EXCEPT !.op = frame.fn, !.val = longest]
       ELSE /\ pc' = "idle"
            /\ frame' = NoFrame
            /\ ret' = [NoRet EXCEPT !.op = frame.fn, !.name = frame.name,
                                    !.idx = frame.i, !.val = frame.streak]
    /\ UNCHANGED <<now, habits, db, test_pc>>

-----------------------------------------------------------------------------
(* habit_tracker_test.py, test_habit_tracking_analysis: a fresh tracker on *)
(* an empty store; daily_habit is habits[1], weekly_habit is habits[2].    *)
(* An exception leaves the test method at once.                            *)

daily_habit == Habit("Exercise", "Go for a run", 1, "daily")
weekly_habit == Habit("Read", "Read a chapter", 7, "weekly")

InitTest ==
    /\ now \in 0..MaxTime
    /\ habits = <<>>
    /\ db = <<>>
    /\ pc = "idle"
    /\ frame = NoFrame
    /\ ret = NoRet
    /\ test_pc = "add_daily"

TestAddDaily ==
    /\ test_pc = "add_daily"
    /\ do_add_habit(daily_habit)
    /\ test_pc' = "add_weekly"

TestAddWeekly ==
    /\ test_pc = "add_weekly"
    /\ do_add_habit(weekly_habit)
    /\ test_pc' = "complete_daily"

TestCompleteDaily ==
    /\ test_pc = "complete_daily"
    /\ do_complete_task(1)
    /\ test_pc' = IF Len(habits[1].completed_dates) + 1 < DailyRuns
                  THEN "complete_daily" ELSE "complete_weekly"

TestCompleteWeekly ==
    /\ test_pc = "complete_weekly"
    /\ do_complete_task(2)
    /\ test_pc' = IF Len(habits[2].completed_dates) + 1 < WeeklyRuns
                  THEN "complete_weekly" ELSE "save_daily"

TestSaveDaily ==
    /\ test_pc = "save_daily"
    /\ do_save_habit_to_db(1)
    /\ test_pc' = "save_weekly"

TestSaveWeekly ==
    /\ test_pc = "save_weekly"
    /\ do_save_habit_to_db(2)
    /\ test_pc' = "load"

TestLoad ==
    /\ test_pc = "load"
    /\ do_load_habits_from_db
    /\ test_pc' = IF load_raises(db) THEN "error" ELSE "assert"

NextTest ==
    \/ Tick
    \/ ClockBack
    \/ TestAddDaily
    \/ TestAddWeekly
    \/ TestCompleteDaily
    \/ TestCompleteWeekly
    \/ TestSaveDaily
    \/ TestSaveWeekly
    \/ TestLoad

TestSpec == InitTest /\ [][NextTest]_vars

-----------------------------------------------------------------------------

Next ==
    \/ Tick
    \/ ClockBack
    \/ AddHabit
    \/ CompleteTask
    \/ SaveHabit
    \/ LoadHabits
    \/ IsHabitBroken
    \/ GetCurrentDailyHabits
    \/ GetCurrentWeeklyHabits
    \/ GetAllHabitsWithPeriodicity
    \/ GetCurrentStreak
    \/ GetLongestRunStreakForHabit
    \/ GetLongestRunStreakOfAllHabits
    \/ StreakRaise
    \/ StreakLoop
    \/ StreakReturn

Spec == Init /\ [][Next]_vars

-----------------------------------------------------------------------------
(* One Habit in use: a tracker to which a single habit has just been       *)
(* added, and the calls on that habit (class Habit, lines 4-63).           *)

InitHabit ==
    /\ now = 0
    /\ \E inp \in HabitInputs :
          LET h == Habit(inp[1], inp[2], inp[3], inp[4]) IN
          /\ habits = <<h>>
          /\ db = <<row_of(h)>>
    /\ pc = "idle"
    /\ frame = NoFrame
    /\ ret = NoRet
    /\ test_pc = "off"

NextHabit ==
    \/ Tick
    \/ ClockBack
    \/ CompleteTask
    \/ IsHabitBroken
    \/ GetCurrentStreak
    \/ GetLongestRunStreakForHabit
    \/ StreakRaise
    \/ StreakLoop
    \/ StreakReturn

HabitSpec == InitHabit /\ [][NextHabit]_vars

(* The interpreter keeps running a started loop *)
HabitFairSpec ==
    HabitSpec /\ WF_vars(StreakRaise) /\ WF_vars(StreakLoop) /\ WF_vars(StreakReturn)

-----------------------------------------------------------------------------
(* The tracker as a collection (class HabitTracker): habits are added,     *)
(* completed as the clock advances and loaded back from the rows that      *)
(* add_habit stored, and the collection is queried.                        *)

NextTracker ==
    \/ Tick
    \/ AddHabit
    \/ CompleteTask
    \/ LoadHabits
    \/ IsHabitBroken
    \/ GetCurrentDailyHabits
    \/ GetCurrentWeeklyHabits
    \/ GetLongestRunStreakForHabit
    \/ GetLongestRunStreakOfAllHabits
    \/ StreakRaise
    \/ StreakLoop
    \/ StreakReturn

TrackerSpec == Init /\ [][NextTracker]_vars

-----------------------------------------------------------------------------
(* Properties *)

StreakOps == {"get_current_streak", "get_longest_run_streak_for_habit"}
CurrentOps == {"get_current_daily_habits", "get_current_weekly_habits"}

(* the habit is broken k whole days before ref, by the arithmetic of the   *)
(* definition: ref - k days - last entry > periodicity days                *)
BrokenAt(h, ref, k) ==
    ref - k * Day - h.completed_dates[Len(h.completed_dates)]
        > h.periodicity * Day

(* C1: with periodicity P >= 1 and a non-empty log whose last appended     *)
(* entry is T, is_broken(reference) is true exactly when reference - T is  *)
(* strictly more than P days (false at T + P days, true one tick later);   *)
(* only the last appended entry counts, sorted log or not.                 *)
C1_BrokenIffStrictlyOverPeriod ==
    (ret.op = "is_habit_broken" /\ habits[ret.idx].completed_dates # <<>>) =>
        LET h == habits[ret.idx]
            T == h.completed_dates[Len(h.completed_dates)]
        IN /\ h.periodicity >= 1
           /\ ret.err = ""
           /\ ret.flag = (now - T > h.periodicity * Day)
           /\ (now = T + h.periodicity * Day => ~ret.flag)
           /\ (now = T + h.periodicity * Day + 1 => ret.flag)

(* is_broken has just answered true one tick past the boundary, on a log   *)
(* of two entries that is not in chronological order                       *)
C1_Witness ==
    /\ ret.op = "is_habit_broken"
    /\ ret.flag
    /\ Len(habits[ret.idx].completed_dates) = 2
    /\ habits[ret.idx].completed_dates[1] > habits[ret.idx].completed_dates[2]
    /\ now = habits[ret.idx].completed_dates[2]
               + habits[ret.idx].periodicity * Day + 1

C3_StreakCountsCompletions ==
    (/\ ret.op = "get_longest_run_streak_for_habit"
     /\ ret.idx # 0
     /\ habits[ret.idx].completed_dates # <<>>
     /\ \A k \in 1..Len(habits[ret.idx].completed_dates) :
            habits[ret.idx].completed_dates[k] = now)
        => (ret.err = "" /\ ret.val = Len(habits[ret.idx].completed_dates))

(* C4: save then load completes without error and the loaded habits are    *)
(* the saved ones: same name, task, periodicity, period kind, same log.    *)
C4_SaveLoadRoundTrip ==
    (ret.op = "load_habits_from_db") =>
        /\ ret.err = ""
        /\ Len(habits) >= Len(db)
        /\ \A k \in 1..Len(db) :
              row_of(habits[Len(habits) - Len(db) + k]) = db[k]

(* C5: the daily and the weekly filter partition the habits: every habit   *)
(* is in exactly one of the two lists, each in tracker order.              *)
C5_PeriodsPartitionHabits ==
    LET daily == get_all_habits_with_periodicity(habits, "daily")
        weekly == get_all_habits_with_periodicity(habits, "weekly")
    IN /\ Len(daily) + Len(weekly) = Len(habits)
       /\ \A i \in 1..Len(habits) :
             (habits[i].habit_period = "daily")
                 # (habits[i].habit_period = "weekly")

(* C6: get_longest_run_streak_for_habit(name) for a name no habit bears    *)
(* returns 0 at once, raises nothing and changes neither tracker nor       *)
(* store, whatever the habits and their logs.                              *)
C6_UnknownNameGivesZero ==
    [][(/\ pc = "idle"
        /\ ret'.op = "get_longest_run_streak_for_habit"
        /\ \A i \in 1..Len(habits) : habits[i].name # ret'.name)
       => (/\ pc' = "idle"
           /\ ret'.val = 0
           /\ ret'.err = ""
           /\ ret'.idx = 0
           /\ habits' = habits
           /\ db' = db)]_vars

(* the name was looked up in a tracker holding two habits, one of them     *)
(* never completed, and matched neither                                    *)
C6_Witness ==
    /\ ret.op = "get_longest_run_streak_for_habit"
    /\ ret.name = "Documentary"
    /\ Len(habits) = 2
    /\ habits[1].completed_dates = <<>>
    /\ habits[2].completed_dates # <<>>

(* the first offset at which h is not broken, looking back from ref *)
FirstUnbroken(h, ref) ==
    CHOOSE k \in 0..(MaxTime + 1) :
        /\ ~BrokenAt(h, ref, k)
        /\ \A j \in 0..(k - 1) : BrokenAt(h, ref, j)

AllLogged == \A i \in 1..Len(habits) : habits[i].completed_dates # <<>>

C8_EmptyLogRaises ==
    [][/\ (/\ ret'.op = "is_habit_broken"
           /\ habits[ret'.idx].completed_dates = <<>>)
          => (ret'.err = "IndexError" /\ habits' = habits /\ db' = db)
       /\ (/\ ret'.op \in CurrentOps
           /\ \E i \in 1..Len(habits) :
                 /\ habits[i].habit_period = ret'.name
                 /\ habits[i].completed_dates = <<>>)
          => (/\ ret'.err = "IndexError"
              /\ ret'.names = <<>>
              /\ habits' = habits
              /\ db' = db)
       /\ (/\ ret'.op \in CurrentOps
           /\ \A i \in 1..Len(habits) :
                 habits[i].habit_period = ret'.name
                     => habits[i].completed_dates # <<>>)
          => ret'.err = ""
       /\ (pc = "streak" /\ habits[frame.i].completed_dates = <<>>)
          => (/\ pc' = "idle"
              /\ ret'.err = "IndexError"
              /\ ret'.op = frame.fn
              /\ habits' = habits
              /\ db' = db)]_vars

(* the daily list has just raised: a never-completed daily habit sits      *)
(* behind one that is being followed                                       *)
C8_Witness ==
    /\ ret.op = "get_current_daily_habits"
    /\ ret.err = "IndexError"
    /\ Len(habits) = 2
    /\ habits[1].habit_period = "daily"
    /\ habits[1].completed_dates # <<>>
    /\ ~BrokenAt(habits[1], now, 0)
    /\ habits[2].habit_period = "daily"
    /\ habits[2].completed_dates = <<>>

(* a streak query on one habit is walking back from a reference at which   *)
(* the habit is broken by more than a day beyond its periodicity           *)
WalkingBackFromFarBroken ==
    /\ pc = "streak"
    /\ frame.fn \in StreakOps
    /\ habits[frame.i].completed_dates # <<>>
    /\ habits[frame.i].periodicity >= 1
    /\ BrokenAt(habits[frame.i], frame.current_date, 1)

ReturnedFromFarBroken ==
    /\ pc = "idle"
    /\ ret.op \in StreakOps
    /\ ret.idx # 0
    /\ ret.err = ""
    /\ BrokenAt(habits[ret.idx], now, 1)

(* C9 as stated: the walk-back never reaches an unbroken offset for a      *)
(* habit broken far beyond its periodicity, so the query never returns.    *)
C9_FarBrokenNeverReturns == ~ReturnedFromFarBroken

(* C9, amended: for a habit with periodicity >= 1 and a non-empty log the  *)
(* walk-back always terminates, however far the habit is broken: it        *)
(* returns the first offset at which the habit is not broken.              *)
C9_WalkBackTerminates ==
    WalkingBackFromFarBroken ~>
        (/\ ReturnedFromFarBroken
         /\ ret.val >= 2
         /\ ~BrokenAt(habits[ret.idx], now, ret.val))

C9_Witness == ReturnedFromFarBroken /\ ret.val = 2

(* C10: after add(daily), add(weekly), completions, save of both and load  *)
(* on an empty store, the tracker reports each habit once: the daily list  *)
(* is <<"Exercise">>, the weekly list <<"Read">>, and no query fails.      *)
C10_TestReportsEachHabitOnce ==
    (test_pc \in {"error", "assert"} /\ ret.op = "load_habits_from_db") =>
        /\ ret.err = ""
        /\ get_current_habits(habits, "daily", now)
               = [err |-> "", names |-> <<"Exercise">>]
        /\ get_current_habits(habits, "weekly", now)
               = [err |-> "", names |-> <<"Read">>]

====
